---- MODULE Spec2Model ----
(* Lifecycle of PsqlServer (src/src/lib.rs): PsqlServer::start and          *)
(* Drop for PsqlServer, run by several callers on one host, together with   *)
(* the server processes they spawn.  Every call that blocks on the OS or on *)
(* an external tool is one step; the tools' and the OS's answers are the    *)
(* inputs of the steps.                                                     *)
EXTENDS Integers, Sequences, FiniteSets

(* ------------------------------ bounds --------------------------------- *)
\* loopback ports the OS hands out for a bind to port 0
MaxPort == 2
\* failed readiness probes one start call is followed through
MaxProbes == 2

\* the two callers that run PsqlServer::start concurrently on the host
Instances == {1, 2}
Ports == 1..MaxPort
\* names TempDir::new can pick: one per caller, so a fresh one always exists
Dirs == Instances

\* Duration::from_millis(500), the sleep of the readiness loop
SleepMillis == 500

(* --------------------------- program text ------------------------------ *)
\* the four lookups of start, in the order of the code
ToolOrder == <<"postgres", "initdb", "createdb", "pg_isready">>

\* the map_err of each lookup
MissingError_Swapped(tool) ==
    CASE tool = "postgres"   -> "CouldNotFindPostgresCommand"
      [] tool = "initdb"     -> "CouldNotFindCreateDbCommand"
      [] tool = "createdb"   -> "CouldNotFindInitDbCommand"
      [] tool = "pg_isready" -> "CouldNotFindPgIsReadyCommand"

MissingError(tool) ==
    CASE tool = "postgres"   -> "CouldNotFindPostgresCommand"
      [] tool = "initdb"     -> "CouldNotFindInitDbCommand"
      [] tool = "createdb"   -> "CouldNotFindCreateDbCommand"
      [] tool = "pg_isready" -> "CouldNotFindPgIsReadyCommand"

MissingErrors == {MissingError(ToolOrder[k]) : k \in 1..4}

PsqlServerError ==
    MissingErrors \cup {"InitDbFailed", "CreateDbFailed", "PostgresFailed", "IoError"}

\* which(command): executed says whether `which` could be run at all, success
\* is its exit status, utf8 whether its output is valid UTF-8
which(executed, success, utf8) ==
    IF ~executed THEN "panic"
    ELSE IF success THEN (IF utf8 THEN "Ok" ELSE "Err")
    ELSE "Err"

\* Drop of the local TempDir: the directory tree is removed
DropTempDir_Leak(r) == r

DropTempDir(r) == IF r = "exists" THEN "deleted" ELSE r

\* Drop of a std::process::Child: the process is neither killed nor waited for
DropChild(p) == p

Alive(p) == p \in {"starting", "listening"}

VARIABLES
    pc,          \* where each caller is in start / drop
    result,      \* what start returned: "none", "Ok", an error, or "panic"
    resolved,    \* number of tool paths start holds (postgres, initdb, ...)
    unlocated,   \* the tool whose which() returned Err, or "none"
    root,        \* storage root of the call: "none", "exists", "deleted"
    base_dir,    \* name of the storage root, 0 before TempDir::new
    subdirs,     \* subdirectories of the storage root
    port,        \* the port returned by get_unused_port, 0 before
    process,     \* the spawned server: "none", "starting", "listening",
                 \* "exited" (dead, not reaped), "reaped"
    hasDb,       \* the server holds the database "test"
    checks,      \* calls of process.try_wait()
    exit_obs,    \* result of the last try_wait: "none", "None", "Some", "Err"
    probes,      \* runs of pg_isready
    sleeps,      \* calls of thread::sleep
    log,         \* the tool runs and teardown steps of the call, in order
    srv_port,    \* the -p argument the server was spawned with, 0 before
    lostPort     \* the server found its port bound by another server

vars == <<pc, result, resolved, unlocated, root, base_dir, subdirs, port,
          process, hasDb, checks, exit_obs, probes, sleeps, log, srv_port,
          lostPort>>

Init ==
    /\ pc = [i \in Instances |-> "which"]
    /\ result = [i \in Instances |-> "none"]
    /\ resolved = [i \in Instances |-> 0]
    /\ unlocated = [i \in Instances |-> "none"]
    /\ root = [i \in Instances |-> "none"]
    /\ base_dir = [i \in Instances |-> 0]
    /\ subdirs = [i \in Instances |-> {}]
    /\ port = [i \in Instances |-> 0]
    /\ process = [i \in Instances |-> "none"]
    /\ hasDb = [i \in Instances |-> FALSE]
    /\ checks = [i \in Instances |-> 0]
    /\ exit_obs = [i \in Instances |-> "none"]
    /\ probes = [i \in Instances |-> 0]
    /\ sleeps = [i \in Instances |-> 0]
    /\ log = [i \in Instances |-> <<>>]
    /\ srv_port = [i \in Instances |-> 0]
    /\ lostPort = [i \in Instances |-> FALSE]

\* names of the storage roots created so far.  TempDir::new appends a random
\* suffix to "postgresql" and retries on a name that exists: the name is fresh
UsedDirs == {base_dir[i] : i \in Instances} \ {0}

\* ports a server is listening on
BoundPorts == {srv_port[i] : i \in {j \in Instances : process[j] = "listening"}}

\* the servers that accept connections on port p
ListeningOn(p) == {j \in Instances : process[j] = "listening" /\ srv_port[j] = p}


(* ------------------------ leaving start early --------------------------- *)
\* `return Err(..)`, `?` and a panicking expect all leave start by dropping its
\* locals: base_dir (r is its storage root) and process (p is its state).
\* outcome is the error returned, or "panic".
Return(i, outcome, r, p) ==
    /\ pc' = [pc EXCEPT ![i] = IF outcome = "panic" THEN "panicked" ELSE "failed"]
    /\ result' = [result EXCEPT ![i] = outcome]
    /\ root' = [root EXCEPT ![i] = DropTempDir(r)]
    /\ subdirs' = [subdirs EXCEPT ![i] = IF DropTempDir(r) = "exists" THEN @ ELSE {}]
    /\ process' = [process EXCEPT ![i] = DropChild(p)]

Append1(i, e) == [log EXCEPT ![i] = Append(@, e)]

(* ------------------------------- start ---------------------------------- *)
\* let postgres = which("postgres").map_err(..)?;  and the three lookups after it
Which(i) ==
    /\ pc[i] = "which"
    /\ \E executed \in BOOLEAN, success \in BOOLEAN, utf8 \in BOOLEAN :
         LET tool == ToolOrder[resolved[i] + 1]
             r == which(executed, success, utf8)
         IN CASE r = "Ok" ->
                   /\ resolved' = [resolved EXCEPT ![i] = @ + 1]
                   /\ pc' = [pc EXCEPT ![i] = IF resolved[i] + 1 = Len(ToolOrder)
                                               THEN "tempdir" ELSE "which"]
                   /\ UNCHANGED <<result, unlocated, root, subdirs, process>>
              [] r = "Err" ->
                   /\ unlocated' = [unlocated EXCEPT ![i] = tool]
                   /\ Return(i, MissingError(tool), root[i], process[i])
                   /\ UNCHANGED resolved
              [] r = "panic" ->
                   /\ Return(i, "panic", root[i], process[i])
                   /\ UNCHANGED <<resolved, unlocated>>
    /\ UNCHANGED <<base_dir, port, hasDb, checks, exit_obs, probes, sleeps, log>>
    /\ UNCHANGED <<srv_port, lostPort>>

\* TempDir::new("postgresql") and the two to_str().unwrap() of its sub-paths
TempDirNew(i) ==
    /\ pc[i] = "tempdir"
    /\ \E created \in BOOLEAN, utf8 \in BOOLEAN :
         IF ~created
         THEN /\ Return(i, "IoError", root[i], process[i])
              /\ UNCHANGED base_dir
         ELSE \E d \in Dirs \ UsedDirs :
                /\ base_dir' = [base_dir EXCEPT ![i] = d]
                /\ IF utf8
                   THEN /\ root' = [root EXCEPT ![i] = "exists"]
                        /\ pc' = [pc EXCEPT ![i] = "mkdir_data"]
                        /\ UNCHANGED <<result, subdirs, process>>
                   ELSE Return(i, "panic", "exists", process[i])
    /\ UNCHANGED <<resolved, unlocated, port, hasDb, checks, exit_obs, probes,
                   sleeps, log>>
    /\ UNCHANGED <<srv_port, lostPort>>

\* the `?` of each fs::create_dir: at is the call made, created its result
CreateDirNext_IgnoreError(at, created) ==
    IF at = "mkdir_data" THEN "mkdir_tmp" ELSE "initdb"

CreateDirNext_SkipTmp(at, created) ==
    IF ~created THEN "failed" ELSE "initdb"

CreateDirNext(at, created) ==
    IF ~created THEN "failed"
    ELSE IF at = "mkdir_data" THEN "mkdir_tmp" ELSE "initdb"

\* fs::create_dir(&data_path)?  and  fs::create_dir(&tmp_path)?
CreateDir(i) ==
    /\ pc[i] \in {"mkdir_data", "mkdir_tmp"}
    /\ \E created \in BOOLEAN :
         LET sub == IF pc[i] = "mkdir_data" THEN "data" ELSE "tmp"
         IN /\ log' = IF created THEN log ELSE Append1(i, sub \o "_fail")
            /\ IF CreateDirNext(pc[i], created) = "failed"
               THEN Return(i, "IoError", root[i], process[i])
               ELSE /\ subdirs' = [subdirs EXCEPT ![i] =
                                     IF created THEN @ \cup {sub} ELSE @]
                    /\ pc' = [pc EXCEPT ![i] = CreateDirNext(pc[i], created)]
                    /\ UNCHANGED <<result, root, process>>
    /\ UNCHANGED <<resolved, unlocated, base_dir, port, hasDb, checks, exit_obs,
                   probes, sleeps>>
    /\ UNCHANGED <<srv_port, lostPort>>

\* if !initdb_out.status.success() { return Err(InitDbFailed) }
InitDbNext_IgnoreStatus(success) == "get_port"

InitDbNext(success) == IF success THEN "get_port" ELSE "failed"

\* Command::new(&initdb)...output().expect(..) and the check of its status
InitDb(i) ==
    /\ pc[i] = "initdb"
    /\ \E executed \in BOOLEAN, success \in BOOLEAN :
         IF ~executed
         THEN /\ Return(i, "panic", root[i], process[i])
              /\ UNCHANGED log
         ELSE /\ log' = Append1(i, IF success THEN "initdb_ok" ELSE "initdb_fail")
              /\ IF InitDbNext(success) = "failed"
                 THEN Return(i, "InitDbFailed", root[i], process[i])
                 ELSE /\ pc' = [pc EXCEPT ![i] = InitDbNext(success)]
                      /\ UNCHANGED <<result, root, subdirs, process>>
    /\ UNCHANGED <<resolved, unlocated, base_dir, port, hasDb, checks, exit_obs,
                   probes, sleeps>>
    /\ UNCHANGED <<srv_port, lostPort>>

\* get_unused_port: bind 127.0.0.1:0, read the port, drop the listener
get_unused_port(i) ==
    /\ pc[i] = "get_port"
    /\ \E bound \in BOOLEAN, addr \in BOOLEAN :
         IF bound /\ addr /\ Ports \ BoundPorts # {}
         THEN \E p \in Ports \ BoundPorts :
                /\ port' = [port EXCEPT ![i] = p]
                /\ pc' = [pc EXCEPT ![i] = "spawn"]
                /\ UNCHANGED <<result, root, subdirs, process>>
         ELSE /\ Return(i, "IoError", root[i], process[i])
              /\ UNCHANGED port
    /\ UNCHANGED <<resolved, unlocated, base_dir, hasDb, checks, exit_obs, probes,
                   sleeps, log>>
    /\ UNCHANGED <<srv_port, lostPort>>

\* Command::new(postgres)...spawn().expect("failed to execute psql")
Spawn(i) ==
    /\ pc[i] = "spawn"
    /\ \E executed \in BOOLEAN :
         IF executed
         THEN /\ process' = [process EXCEPT ![i] = "starting"]
              /\ srv_port' = [srv_port EXCEPT ![i] = port[i]]
              /\ log' = Append1(i, "spawn")
              /\ pc' = [pc EXCEPT ![i] = "try_wait"]
              /\ UNCHANGED <<result, root, subdirs>>
         ELSE /\ Return(i, "panic", root[i], process[i])
              /\ UNCHANGED <<log, srv_port>>
    /\ UNCHANGED <<resolved, unlocated, base_dir, port, hasDb, checks, exit_obs,
                   probes, sleeps>>
    /\ UNCHANGED lostPort

(* --------------------------- readiness loop ------------------------------ *)
\* Child::try_wait on a process in state p: Some(status) once it has exited
try_wait(p) == IF Alive(p) THEN "None" ELSE "Some"

\* if let Some(_) = process.try_wait()? { return Err(PostgresFailed) }
ExitCheck_KeepPolling(obs) == "pg_isready"

ExitCheck(obs) == IF obs = "Some" THEN "failed" ELSE "pg_isready"

\* first statement of the loop body: the exit check of the owned process
TryWait(i) ==
    /\ pc[i] = "try_wait"
    /\ checks' = [checks EXCEPT ![i] = @ + 1]
    /\ \E ok \in BOOLEAN :
         IF ~ok
         THEN /\ exit_obs' = [exit_obs EXCEPT ![i] = "Err"]
              /\ Return(i, "IoError", root[i], process[i])
         ELSE LET obs == try_wait(process[i])
                  reaped == IF obs = "Some" THEN "reaped" ELSE process[i]
              IN /\ exit_obs' = [exit_obs EXCEPT ![i] = obs]
                 /\ IF ExitCheck(obs) = "failed"
                    THEN Return(i, "PostgresFailed", root[i], reaped)
                    ELSE /\ pc' = [pc EXCEPT ![i] = ExitCheck(obs)]
                         /\ process' = [process EXCEPT ![i] = reaped]
                         /\ UNCHANGED <<result, root, subdirs>>
    /\ UNCHANGED <<resolved, unlocated, base_dir, port, hasDb, probes, sleeps, log>>
    /\ UNCHANGED <<srv_port, lostPort>>

\* if isready_out.status.success() { break } else { thread::sleep(500 ms) }
ProbeNext_RetryPort(success) == IF success THEN "createdb" ELSE "get_port"

ProbeNext_NoSleep(success) == IF success THEN "createdb" ELSE "try_wait"

ProbeNext(success) == IF success THEN "createdb" ELSE "sleep"

\* pg_isready -p port -h 127.0.0.1: exit status 0 iff a server accepts
\* connections on the port, whichever process that server is
PgIsReady(i) ==
    /\ pc[i] = "pg_isready"
    /\ \E executed \in BOOLEAN :
         IF ~executed
         THEN /\ Return(i, "panic", root[i], process[i])
              /\ UNCHANGED <<probes, log>>
         ELSE LET success == ListeningOn(port[i]) # {}
              IN /\ success \/ probes[i] < MaxProbes \/ ~Alive(process[i])
                 /\ probes' = [probes EXCEPT ![i] = @ + 1]
                 /\ log' = IF success THEN Append1(i, "ready") ELSE log
                 /\ pc' = [pc EXCEPT ![i] = ProbeNext(success)]
                 /\ UNCHANGED <<result, root, subdirs, process>>
    /\ UNCHANGED <<resolved, unlocated, base_dir, port, hasDb, checks, exit_obs,
                   sleeps>>
    /\ UNCHANGED <<srv_port, lostPort>>

\* thread::sleep(Duration::from_millis(500)), then the next iteration
Sleep(i) ==
    /\ pc[i] = "sleep"
    /\ sleeps' = [sleeps EXCEPT ![i] = @ + 1]
    /\ pc' = [pc EXCEPT ![i] = "try_wait"]
    /\ UNCHANGED <<result, resolved, unlocated, root, base_dir, subdirs, port,
                   process, hasDb, checks, exit_obs, probes, log>>
    /\ UNCHANGED <<srv_port, lostPort>>

\* createdb -p port -h 127.0.0.1 -U postgres test: it can succeed only on a
\* server that accepts connections on the port and has no database "test"
CreateDb(i) ==
    /\ pc[i] = "createdb"
    /\ \E executed \in BOOLEAN, success \in BOOLEAN :
         IF ~executed
         THEN /\ Return(i, "panic", root[i], process[i])
              /\ UNCHANGED <<hasDb, log>>
         ELSE IF success
         THEN \E j \in ListeningOn(port[i]) :
                /\ ~hasDb[j]
                /\ hasDb' = [hasDb EXCEPT ![j] = TRUE]
                /\ log' = Append1(i, "createdb_ok")
                /\ pc' = [pc EXCEPT ![i] = "return_ok"]
                /\ UNCHANGED <<result, root, subdirs, process>>
         ELSE /\ log' = Append1(i, "createdb_fail")
              /\ Return(i, "CreateDbFailed", root[i], process[i])
              /\ UNCHANGED hasDb
    /\ UNCHANGED <<resolved, unlocated, base_dir, port, checks, exit_obs, probes,
                   sleeps>>
    /\ UNCHANGED <<srv_port, lostPort>>

\* Ok(PsqlServer { process, base_dir: Some(base_dir), port }): the locals move
\* into the handle; nothing is checked again after createdb has exited
ReturnOk(i) ==
    /\ pc[i] = "return_ok"
    /\ pc' = [pc EXCEPT ![i] = "live"]
    /\ result' = [result EXCEPT ![i] = "Ok"]
    /\ UNCHANGED <<resolved, unlocated, root, base_dir, subdirs, port, process,
                   hasDb, checks, exit_obs, probes, sleeps, log>>
    /\ UNCHANGED <<srv_port, lostPort>>

(* ------------------------- Drop for PsqlServer --------------------------- *)
\* a panicking expect inside drop: the fields not yet taken are dropped while
\* unwinding (r is the storage root still owned by base_dir)
DropPanic(i, r) ==
    /\ pc' = [pc EXCEPT ![i] = "drop_panicked"]
    /\ root' = [root EXCEPT ![i] = DropTempDir(r)]
    /\ subdirs' = [subdirs EXCEPT ![i] = IF DropTempDir(r) = "exists" THEN @ ELSE {}]

\* Child::kill: SIGKILL to a process that has not been reaped
kill(p) == IF Alive(p) THEN "exited" ELSE p

\* Child::wait: returns once the process has exited, and reaps it
wait_NoReap(p) == p

wait(p) == "reaped"

\* TempDir::close: remove_dir_all of the storage root
close(r) == "deleted"

\* self.process.kill().expect("failed to kill postgres")
DropKill(i) ==
    /\ pc[i] = "live"
    /\ \E ok \in BOOLEAN :
         IF ok
         THEN /\ process' = [process EXCEPT ![i] = kill(@)]
              /\ log' = Append1(i, "kill")
              /\ pc' = [pc EXCEPT ![i] = "drop_wait"]
              /\ UNCHANGED <<root, subdirs>>
         ELSE /\ DropPanic(i, root[i])
              /\ process' = [process EXCEPT ![i] = DropChild(@)]
              /\ UNCHANGED log
    /\ UNCHANGED <<result, resolved, unlocated, base_dir, port, hasDb, checks,
                   exit_obs, probes, sleeps>>
    /\ UNCHANGED <<srv_port, lostPort>>

\* self.process.wait().expect("....")
DropWait(i) ==
    /\ pc[i] = "drop_wait"
    /\ \E ok \in BOOLEAN :
         IF ok
         THEN /\ ~Alive(process[i])
              /\ process' = [process EXCEPT ![i] = wait(@)]
              /\ log' = Append1(i, "wait")
              /\ pc' = [pc EXCEPT ![i] = "drop_close"]
              /\ UNCHANGED <<root, subdirs>>
         ELSE /\ DropPanic(i, root[i])
              /\ process' = [process EXCEPT ![i] = DropChild(@)]
              /\ UNCHANGED log
    /\ UNCHANGED <<result, resolved, unlocated, base_dir, port, hasDb, checks,
                   exit_obs, probes, sleeps>>
    /\ UNCHANGED <<srv_port, lostPort>>

\* self.base_dir.take().unwrap().close().expect("failed to delete temp dir")
DropClose(i) ==
    /\ pc[i] = "drop_close"
    /\ \E ok \in BOOLEAN :
         IF ok
         THEN /\ root' = [root EXCEPT ![i] = close(@)]
              /\ subdirs' = [subdirs EXCEPT ![i] = IF close(root[i]) = "deleted"
                                                   THEN {} ELSE @]
              /\ log' = Append1(i, "close")
              /\ pc' = [pc EXCEPT ![i] = "dropped"]
         ELSE /\ pc' = [pc EXCEPT ![i] = "drop_panicked"]
              /\ UNCHANGED <<root, subdirs, log>>
    /\ UNCHANGED <<result, resolved, unlocated, base_dir, port, process, hasDb,
                   checks, exit_obs, probes, sleeps>>
    /\ UNCHANGED <<srv_port, lostPort>>

(* -------------------------- the server process --------------------------- *)
\* postgres -p port -h 127.0.0.1: it starts to accept connections once it has
\* bound the port, and exits when the port is already bound
ServerBind(i) ==
    /\ process[i] = "starting"
    /\ process' = [process EXCEPT ![i] = IF srv_port[i] \in BoundPorts
                                          THEN "exited" ELSE "listening"]
    /\ lostPort' = [lostPort EXCEPT ![i] = srv_port[i] \in BoundPorts]
    /\ UNCHANGED <<pc, result, resolved, unlocated, root, base_dir, subdirs, port,
                   hasDb, checks, exit_obs, probes, sleeps, log, srv_port>>

\* the server process exits by itself (it crashed)
ServerExit(i) ==
    /\ Alive(process[i])
    /\ process' = [process EXCEPT ![i] = "exited"]
    /\ UNCHANGED <<pc, result, resolved, unlocated, root, base_dir, subdirs, port,
                   hasDb, checks, exit_obs, probes, sleeps, log>>
    /\ UNCHANGED <<srv_port, lostPort>>

Next ==
    \E i \in Instances :
        \/ Which(i)
        \/ TempDirNew(i)
        \/ CreateDir(i)
        \/ InitDb(i)
        \/ get_unused_port(i)
        \/ Spawn(i)
        \/ TryWait(i)
        \/ PgIsReady(i)
        \/ Sleep(i)
        \/ CreateDb(i)
        \/ ReturnOk(i)
        \/ DropKill(i)
        \/ DropWait(i)
        \/ DropClose(i)
        \/ ServerBind(i)
        \/ ServerExit(i)

Spec == Init /\ [][Next]_vars

\* the steps of the thread that runs start for caller i
StartStep(i) ==
    \/ Which(i)
    \/ TempDirNew(i)
    \/ CreateDir(i)
    \/ InitDb(i)
    \/ get_unused_port(i)
    \/ Spawn(i)
    \/ TryWait(i)
    \/ PgIsReady(i)
    \/ Sleep(i)
    \/ CreateDb(i)
    \/ ReturnOk(i)

\* the calling threads keep running, every tool they run terminates, and a
\* spawned server does not stay forever short of binding its port
FairSpec ==
    /\ Spec
    /\ \A i \in Instances : WF_vars(StartStep(i))
    /\ \A i \in Instances : WF_vars(ServerBind(i))

(* ------------------------------- claims --------------------------------- *)
\* time start has spent sleeping in the readiness loop, in milliseconds
Elapsed(i) == sleeps[i] * SleepMillis

\* number of entries of the log of call i that are in set S
RECURSIVE CountIn(_, _)
CountIn(seq, S) ==
    IF seq = <<>> THEN 0
    ELSE (IF Head(seq) \in S THEN 1 ELSE 0) + CountIn(Tail(seq), S)

\* C1: whenever start has returned Err, no server process spawned by that call
\* is still running; in particular after CreateDbFailed the server has been
\* terminated and reaped.
C1_NoProcessAfterErr ==
    \A i \in Instances :
        pc[i] = "failed" =>
            /\ ~Alive(process[i])
            /\ result[i] = "CreateDbFailed" => process[i] = "reaped"

\* C2: the storage root is deleted only when the server process of the call
\* was never started or has exited and been reaped.
C2_RootDeletedOnlyAfterReap ==
    \A i \in Instances :
        root[i] = "deleted" => process[i] \in {"none", "reaped"}

\* C3: once drop of a handle returned by start has returned, teardown has run
\* once as kill, wait, delete in that order, the server process is dead and
\* reaped and the storage root is gone.
C3_DropTearsDown ==
    \A i \in Instances :
        pc[i] = "dropped" =>
            /\ result[i] = "Ok"
            /\ log[i] = <<"initdb_ok", "spawn", "ready", "createdb_ok",
                          "kill", "wait", "close">>
            /\ process[i] = "reaped"
            /\ root[i] = "deleted"
            /\ subdirs[i] = {}

C3_Witness == \E i \in Instances : pc[i] = "dropped"

\* C4: two start calls that both return Ok return handles with different
\* ports and different storage roots, and no two live handles share a port.
C4_DistinctPortsAndRoots ==
    \A i, j \in Instances :
        (i # j /\ result[i] = "Ok" /\ result[j] = "Ok") =>
            /\ port[i] # port[j]
            /\ base_dir[i] # base_dir[j]

\* C5: when a tool cannot be located start returns the missing-tool error of
\* that tool, and no storage root, port or process exists for the call; a call
\* that holds any of them has located all four tools.
C5_MissingTool ==
    \A i \in Instances :
        /\ unlocated[i] # "none" =>
              /\ pc[i] = "failed"
              /\ root[i] = "none" /\ base_dir[i] = 0 /\ subdirs[i] = {}
              /\ port[i] = 0
              /\ process[i] = "none"
              /\ log[i] = <<>>
        /\ (unlocated[i] = "postgres") = (result[i] = "CouldNotFindPostgresCommand")
        /\ (unlocated[i] = "initdb") = (result[i] = "CouldNotFindInitDbCommand")
        /\ (unlocated[i] = "createdb") = (result[i] = "CouldNotFindCreateDbCommand")
        /\ (unlocated[i] = "pg_isready") = (result[i] = "CouldNotFindPgIsReadyCommand")
        /\ (root[i] # "none" \/ port[i] # 0 \/ process[i] # "none") =>
              resolved[i] = Len(ToolOrder)

C5_Witness ==
    \E i \in Instances :
        unlocated[i] = "createdb" /\ result[i] = "CouldNotFindCreateDbCommand"

\* C6: when initdb exits non-zero start returns InitDbFailed, no server is
\* ever spawned, and the storage root created before is gone once start has
\* returned.
C6_InitDbFailed ==
    \A i \in Instances :
        /\ (log[i] # <<>> /\ log[i][1] = "initdb_fail") =>
              /\ pc[i] = "failed"
              /\ result[i] = "InitDbFailed"
              /\ log[i] = <<"initdb_fail">>
              /\ process[i] = "none"
              /\ base_dir[i] # 0 /\ root[i] = "deleted"
        /\ result[i] = "InitDbFailed" => (log[i] # <<>> /\ log[i][1] = "initdb_fail")

C6_Witness == \E i \in Instances : result[i] = "InitDbFailed"

\* C7: start ends only by returning Ok or Err, never by a panic.
C7_NoPanic == \A i \in Instances : pc[i] # "panicked"

\* C8: in every iteration of the readiness loop the exit check comes before
\* the probe, and once the exit check has seen the process exited start has
\* returned PostgresFailed with no probe, sleep or createdb after it; a process
\* that exited before the first iteration gives zero probes and zero sleeps.
C8_ExitCheckFirst ==
    \A i \in Instances :
        /\ pc[i] = "pg_isready" => (exit_obs[i] = "None" /\ checks[i] = probes[i] + 1)
        /\ probes[i] <= checks[i]
        /\ exit_obs[i] = "Some" =>
              /\ pc[i] = "failed"
              /\ result[i] = "PostgresFailed"
              /\ process[i] = "reaped"
              /\ probes[i] = checks[i] - 1
              /\ sleeps[i] = probes[i]
              /\ log[i] = <<"initdb_ok", "spawn">>
        /\ (exit_obs[i] = "Some" /\ checks[i] = 1) => (probes[i] = 0 /\ sleeps[i] = 0)
        /\ result[i] = "PostgresFailed" => exit_obs[i] = "Some"

C8_Witness ==
    \E i, j \in Instances :
        /\ exit_obs[i] = "Some" /\ checks[i] = 1 /\ result[i] = "PostgresFailed"
        /\ exit_obs[j] = "Some" /\ checks[j] > 1 /\ result[j] = "PostgresFailed"

\* C9: a start call that returns Ok after N failed readiness probes has run
\* N + 1 probes and N sleeps of 500 ms, one after each failed probe and none
\* after the successful one.
C9_ProbesAndSleeps ==
    \A i \in Instances :
        /\ pc[i] = "sleep" => probes[i] = sleeps[i] + 1
        /\ pc[i] = "try_wait" => probes[i] = sleeps[i]
        /\ pc[i] \in {"createdb", "return_ok"} => probes[i] = sleeps[i] + 1
        /\ result[i] = "Ok" =>
              /\ probes[i] = sleeps[i] + 1
              /\ Elapsed(i) = (probes[i] - 1) * 500
              /\ CountIn(log[i], {"ready"}) = 1

C9_Witness ==
    \E i \in Instances :
        /\ pc[i] = "live" /\ Alive(process[i])
        /\ probes[i] = MaxProbes + 1 /\ sleeps[i] = MaxProbes

\* C10: start returns Ok only after initdb succeeded, then the server was
\* spawned, then a readiness probe succeeded, then createdb succeeded, in this
\* order, and initdb, spawn and createdb each run at most once per call.
C10_OkOnlyAfterAllStages ==
    \A i \in Instances :
        /\ result[i] = "Ok" =>
              SubSeq(log[i], 1, 4) = <<"initdb_ok", "spawn", "ready", "createdb_ok">>
        /\ CountIn(log[i], {"initdb_ok", "initdb_fail"}) <= 1
        /\ CountIn(log[i], {"spawn"}) <= 1
        /\ CountIn(log[i], {"createdb_ok", "createdb_fail"}) <= 1
        /\ process[i] # "none" => CountIn(log[i], {"spawn"}) = 1

C10_Witness ==
    \E i \in Instances :
        result[i] = "Ok" /\ pc[i] = "live" /\ Len(log[i]) = 4

\* C11: in the state in which start returns Ok(handle), handle.port is a
\* non-zero port on which a server accepts connections (a readiness probe
\* against it succeeds at that moment).
C11_ReadyAtReturn ==
    [][\A i \in Instances :
          (result[i] # "Ok" /\ result'[i] = "Ok") =>
              /\ port'[i] # 0
              /\ \E j \in Instances : process'[j] = "listening" /\ port'[j] = port'[i]
      ]_vars

\* C12: when the reserved port was taken by another server before the spawned
\* server could bind it, start returns Err(PostgresFailed); in particular a
\* call whose server has lost its port this way never returns Ok.
C12_PortTakenNeverOk ==
    [][\A i \in Instances :
          (lostPort[i] /\ result[i] # "Ok") => result'[i] # "Ok"]_vars

\* C13: the readiness loop is left only because the exit check saw the
\* process exited (PostgresFailed), because a probe succeeded (on to createdb),
\* or because the exit check itself failed with an I/O error.
C13_LoopExits ==
    \A i \in Instances :
        (checks[i] >= 1 /\ pc[i] \notin {"try_wait", "pg_isready", "sleep"}) =>
            \/ exit_obs[i] = "Some" /\ result[i] = "PostgresFailed"
            \/ exit_obs[i] = "Err" /\ result[i] = "IoError"
            \/ exit_obs[i] = "None" /\ CountIn(log[i], {"ready"}) = 1

\* C17: when the calling thread keeps running, every tool terminates and the
\* server eventually exits or accepts connections, every call of start
\* eventually returns Ok or Err.
C17_StartReturns ==
    \A i \in Instances : <>(result[i] \in {"Ok"} \cup PsqlServerError)

\* every call of start eventually ends: it returns or it panics
StartEnds ==
    \A i \in Instances : <>(result[i] \in {"Ok", "panic"} \cup PsqlServerError)

\* C14 as claimed: when the init tool is run both allocations are complete,
\* the storage root with its data and tmp subdirectories and the reserved port.
C14_AllocatedBeforeInitDb ==
    \A i \in Instances :
        pc[i] = "initdb" =>
            /\ root[i] = "exists" /\ subdirs[i] = {"data", "tmp"}
            /\ port[i] # 0

\* C14 as amended: when the init tool is run the four tools are located and
\* the storage root with its data and tmp subdirectories exists, but no port
\* is reserved yet: the port is reserved after initdb has succeeded and before
\* the server is spawned.
C14_DirsBeforeInitDbPortAfter ==
    \A i \in Instances :
        /\ pc[i] = "initdb" =>
              /\ resolved[i] = Len(ToolOrder)
              /\ root[i] = "exists" /\ subdirs[i] = {"data", "tmp"}
              /\ port[i] = 0
              /\ log[i] = <<>>
        /\ port[i] # 0 => (log[i] # <<>> /\ log[i][1] = "initdb_ok")
        /\ process[i] # "none" => (port[i] # 0 /\ srv_port[i] = port[i])
        /\ checks[i] > 0 => process[i] # "none"

C14_Witness ==
    \E i \in Instances : pc[i] = "spawn" /\ port[i] # 0 /\ log[i] = <<"initdb_ok">>

\* C15: when creating the data or the tmp subdirectory fails, start returns
\* Err(IoError) without running initdb, reserving a port or spawning a server,
\* and the storage root with anything created in it is gone.
C15_SubdirFailure ==
    \A i \in Instances :
        (log[i] # <<>> /\ log[i][1] \in {"data_fail", "tmp_fail"}) =>
            /\ pc[i] = "failed"
            /\ result[i] = "IoError"
            /\ Len(log[i]) = 1
            /\ port[i] = 0
            /\ process[i] = "none"
            /\ base_dir[i] # 0 /\ root[i] = "deleted" /\ subdirs[i] = {}

C15_Witness ==
    \E i, j \in Instances :
        /\ log[i] = <<"data_fail">> /\ pc[i] = "failed"
        /\ log[j] = <<"tmp_fail">> /\ pc[j] = "failed"

\* C16: a teardown step that fails makes drop panic at that step, and a failed
\* kill or wait is not followed by the deletion of the storage root while the
\* server process is still alive.
C16_FailedTeardownKeepsRoot ==
    \A i \in Instances :
        pc[i] = "drop_panicked" =>
            /\ CountIn(log[i], {"close"}) = 0
            /\ ~(Alive(process[i]) /\ root[i] = "deleted")

\* C18: a start call reserves one port, which never changes afterwards; it is
\* the port the server was spawned with (and so the port that the probes and
\* createdb address and that the handle holds), and the call spawns at most
\* one server.
C18_OnePort ==
    [][\A i \in Instances :
          /\ port[i] # 0 => port'[i] = port[i]
          /\ process'[i] # "none" => (srv_port'[i] # 0 /\ srv_port'[i] = port'[i])
          /\ CountIn(log'[i], {"spawn"}) <= 1
      ]_vars

C18_Witness ==
    \E i \in Instances :
        /\ pc[i] = "dropped" /\ probes[i] > 1
        /\ port[i] # 0 /\ srv_port[i] = port[i]
====
